---- MODULE Spec2Model ----
(***************************************************************************)
(* A model of the knode decoder (src/knode.go): the cursor (parser.read),  *)
(* the bit-field unpacking, the five parsing phases run by parser.parse,   *)
(* and the two public entry points ParseFromSlice and ParseFromReader.     *)
(*                                                                         *)
(* A call of ParseFromSlice is a little program: it owns its arguments and *)
(* locals (call[k]) and works on a parser struct (heap[parserOf(k)]).  One *)
(* action models one read site of the decoder together with the code that  *)
(* runs between that read and the next one.  Strings are sequences of      *)
(* bytes, as in Go.                                                        *)
(***************************************************************************)
EXTENDS Integers, Sequences, FiniteSets, TLC

VARIABLES
    call,   \* call[k]: arguments, locals, position and results of call k
    heap,   \* heap[a]: the parser struct at address a (buf, i, ctx, n)
    win,    \* a raw byte window handed to the bit-field unpacking
    unp     \* the fields unpacked from win

vars == <<call, heap, win, unp>>

----------------------------------------------------------------------------
(* Go's integer operators on the widths the decoder uses.                  *)

Byte == 0 .. 255

Shr(x, k) == x \div (2 ^ k)

RECURSIVE BitOr(_, _)
BitOr(a, b) ==
    IF a = 0 THEN b
    ELSE IF b = 0 THEN a
    ELSE (IF a % 2 = 1 \/ b % 2 = 1 THEN 1 ELSE 0) + 2 * BitOr(a \div 2, b \div 2)

RECURSIVE BitAnd(_, _)
BitAnd(a, b) ==
    IF a = 0 \/ b = 0 THEN 0
    ELSE (IF a % 2 = 1 /\ b % 2 = 1 THEN 1 ELSE 0) + 2 * BitAnd(a \div 2, b \div 2)

\* conversion to int16: the low 16 bits, read as two's complement
Int16(x) ==
    LET m == x % 65536 IN IF m >= 32768 THEN m - 65536 ELSE m

Shl16(x, k) == Int16(x * (2 ^ k))

Sub16(x, y) == Int16(x - y)

\* a byte shifted left stays a byte
Shl8(x, k) == (x * (2 ^ k)) % 256

\* binary.BigEndian on a uint32
BigEndian32(b) == ((b[1] * 256 + b[2]) * 256 + b[3]) * 256 + b[4]

----------------------------------------------------------------------------
(* Bit-field unpacking: parseRoots (5-byte window) and parseInstances      *)
(* (4-byte window).  Go slices are 0-based, sequences 1-based.             *)

RootInputX(pos) ==
    Sub16(BitOr(Shl16(pos[1], 2), BitAnd(Shr(pos[2], 8 - 2), 3)), 500)

RootInputY(pos) ==
    Sub16(BitOr(Shl16(BitAnd(pos[2], 63), 4), BitAnd(Shr(pos[3], 4), 15)), 500)

RootOutputX(pos) ==
    Sub16(BitOr(Shl16(BitAnd(pos[3], 15), 6), BitAnd(Shr(pos[4], 8 - 6), 63)), 500)

RootOutputY(pos) ==
    Sub16(BitOr(Shl16(BitAnd(pos[4], 3), 8), pos[5]), 500)

InstX(sizeInfo) ==
    Sub16(BitOr(Shl16(sizeInfo[1], 2), BitAnd(Shr(sizeInfo[2], 8 - 2), 3)), 500)

InstY(sizeInfo) ==
    Sub16(BitOr(Shl16(BitAnd(sizeInfo[2], 63), 4),
                BitAnd(Shr(sizeInfo[3], 8 - 4), 15)), 500)

\* the name length with a 3-bit mask for the 4-bit one
InstNameLenBad(sizeInfo) ==
    BitOr(Shl8(BitAnd(sizeInfo[3], 7), 2), BitAnd(Shr(sizeInfo[4], 8 - 2), 3))

InstNameLen(sizeInfo) ==
    BitOr(Shl8(BitAnd(sizeInfo[3], 15), 2), BitAnd(Shr(sizeInfo[4], 8 - 2), 3))

InstSockCount(sizeInfo) == BitAnd(sizeInfo[4], 63)

UnpackRoots(pos) ==
    [InputRootPosition |-> [X |-> RootInputX(pos), Y |-> RootInputY(pos)],
     OutputRootPosition |-> [X |-> RootOutputX(pos), Y |-> RootOutputY(pos)]]

UnpackInstance(sizeInfo) ==
    [Position |-> [X |-> InstX(sizeInfo), Y |-> InstY(sizeInfo)],
     NameLen |-> InstNameLen(sizeInfo),
     SockCount |-> InstSockCount(sizeInfo)]

----------------------------------------------------------------------------
(* Constants and zero values of the decoder's types.                       *)

\* MAGIC_NUMBER = "kronarknode"
MAGIC_NUMBER == <<107, 114, 111, 110, 97, 114, 107, 110, 111, 100, 101>>

LATEST_VERSION == 1

OutgoingNamed == 0

IncomingSwitch == 4

\* the zero Node that parse allocates
ZeroNode ==
    [Version |-> 0,
     InputRootPosition |-> [X |-> 0, Y |-> 0],
     OutputRoot |-> [Position |-> [X |-> 0, Y |-> 0], Connections |-> <<>>],
     Nodes |-> <<>>,
     Types |-> <<>>,
     Instances |-> <<>>]

ZeroInstance ==
    [Key |-> 0, Type |-> 0, Name |-> <<>>,
     Position |-> [X |-> 0, Y |-> 0], Sockets |-> <<>>]

ZeroSocket ==
    [Type |-> 0, ValueType |-> 0, PortSlot |-> 0, Repetitive |-> FALSE,
     Connected |-> FALSE, ConnectedSocket |-> 0, ConnectedNode |-> 0,
     Value |-> <<>>]

\* the zero parser struct; a pointer is <<>> (nil) or <<the value it points to>>
ZeroParser == [buf |-> <<>>, i |-> 0, ctx |-> [fmt |-> "", args |-> <<>>], n |-> <<>>]

\* fmt.Sprintf("%v", b) of a bool: "true" or "false"
FormatBool(b) ==
    IF b THEN <<116, 114, 117, 101>> ELSE <<102, 97, 108, 115, 101>>

\* a context or message: the format string and the values formatted into it
Text(f, a) == [fmt |-> f, args |-> a]

\* binary.Decode's errBufferTooSmall, as formatted by parser.read
ReadError == Text("internal read error (buffer too small)", <<>>)

----------------------------------------------------------------------------
(* parser.error and parser.read.                                           *)

error(p, msg) == [Context |-> p.ctx, Message |-> msg, Index |-> p.i]

\* the bounds check with <= for <
BufferTooSmallOffByOne(p, n) == Len(p.buf) - p.i <= n

\* binary.Decode fails when len(buf) < size
BufferTooSmall(p, n) == Len(p.buf) - p.i < n

\* read with p.i += amt moved above the error check
readPastEnd(p, n) ==
    IF BufferTooSmall(p, n)
    THEN [ok |-> FALSE, p |-> [p EXCEPT !.i = p.i + n], data |-> <<>>, at |-> p.i, n |-> n]
    ELSE [ok |-> TRUE,
          p |-> [p EXCEPT !.i = p.i + n],
          data |-> SubSeq(p.buf, p.i + 1, p.i + n),
          at |-> p.i, n |-> n]

\* The outcome of p.read of an n-byte value: whether it succeeded, the parser
\* after it, the bytes decoded, and (at, n), the offset and size of the attempt.
read(p, n) ==
    IF BufferTooSmall(p, n)
    THEN [ok |-> FALSE, p |-> p, data |-> <<>>, at |-> p.i, n |-> n]
    ELSE [ok |-> TRUE,
          p |-> [p EXCEPT !.i = p.i + n],
          data |-> SubSeq(p.buf, p.i + 1, p.i + n),
          at |-> p.i, n |-> n]

\* the call's record of its last read attempt
Saw(c, r) == [c EXCEPT !.last = <<[at |-> r.at, n |-> r.n]>>]

\* a step's outcome: the call's locals and the parser struct after it
Go(c, p, pc) == [c |-> [c EXCEPT !.pc = pc], p |-> p]

\* parse returns (node, err) to ParseFromSlice, which returns them unchanged
Return(c, p, node, err) ==
    [c |-> [c EXCEPT !.pc = "returned", !.ret = node, !.err = err], p |-> p]

\* parse returning the node under construction along with the error
FailPartial(c, p, msg) == Return(c, p, p.n, <<error(p, msg)>>)

\* a failing phase returns its error; parse returns (nil, err)
Fail(c, p, msg) == Return(c, p, <<>>, <<error(p, msg)>>)

SetCtx(p, f, a) == [p EXCEPT !.ctx = Text(f, a)]

SetNode(p, node) == [p EXCEPT !.n = <<node>>]

----------------------------------------------------------------------------
(* ParseFromSlice and parser.parse up to the first read.                   *)

\* p := parser{buf: buf}; p.n = &Node{}
StartStep(c, p) ==
    Go(c, [buf |-> c.buf, i |-> 0, ctx |-> ZeroParser.ctx, n |-> <<ZeroNode>>], "magic")

----------------------------------------------------------------------------
(* parseHeader.                                                            *)

\* the magic compared on its first 10 bytes only
MagicPrefixOK(magic) == SubSeq(magic, 1, 10) = SubSeq(MAGIC_NUMBER, 1, 10)

MagicOK(magic) == magic = MAGIC_NUMBER

MagicStep(c, p0) ==
    LET p == SetCtx(p0, "parsing magic", <<>>)
        r == read(p, 11)
    IN  IF ~r.ok THEN Fail(Saw(c, r), r.p, ReadError)
        ELSE IF ~MagicOK(r.data)
             THEN Fail(Saw(c, r), r.p, Text("invalid magic %v", r.data))
        ELSE Go(Saw(c, r), r.p, "version")

VersionStep(c, p0) ==
    LET p == SetCtx(p0, "reading version number", <<>>)
        r == read(p, 1)
        q == SetNode(r.p, [r.p.n[1] EXCEPT !.Version = r.data[1]])
    IN  IF ~r.ok THEN Fail(Saw(c, r), r.p, ReadError)
        ELSE IF r.data[1] > LATEST_VERSION
             THEN Fail(Saw(c, r), q,
                       Text("invalid version number %d (higher than latest [%d])",
                            <<r.data[1], LATEST_VERSION>>))
        ELSE Go(Saw(c, r), q, "rootpos")

----------------------------------------------------------------------------
(* parseRoots.                                                             *)

RootPosStep(c, p0) ==
    LET p == SetCtx(p0, "unpacking root positions", <<>>)
        r == read(p, 5)
        u == UnpackRoots(r.data)
        q == SetNode(r.p, [r.p.n[1] EXCEPT
                             !.InputRootPosition = u.InputRootPosition,
                             !.OutputRoot.Position = u.OutputRootPosition])
    IN  IF ~r.ok THEN Fail(Saw(c, r), r.p, ReadError)
        ELSE Go(Saw(c, r), q, "connCount")

ConnCountStep(c, p0) ==
    LET p == SetCtx(p0, "reading amount of connections", <<>>)
        r == read(p, 1)
        d == [Saw(c, r) EXCEPT !.cnt = r.data[1], !.idx = 0]
    IN  IF ~r.ok THEN Fail(Saw(c, r), r.p, ReadError)
        ELSE Go(d, r.p, IF 0 < d.cnt THEN "conn" ELSE "nodeCount")

ConnStep(c, p0) ==
    LET p == SetCtx(p0, "reading outgoing connection [%d]", <<c.idx>>)
        r == read(p, 2)
        q == SetNode(r.p, [r.p.n[1] EXCEPT !.OutputRoot.Connections = Append(@, r.data)])
        d == [Saw(c, r) EXCEPT !.idx = c.idx + 1]
    IN  IF ~r.ok THEN Fail(Saw(c, r), r.p, ReadError)
        ELSE Go(d, q, IF d.idx < d.cnt THEN "conn" ELSE "nodeCount")

----------------------------------------------------------------------------
(* parseNodesAndTypes.  The loops leave the context set before the count.  *)

NodeCountStep(c, p0) ==
    LET p == SetCtx(p0, "reading amount of nodes", <<>>)
        r == read(p, 1)
        d == [Saw(c, r) EXCEPT !.cnt = r.data[1], !.idx = 0]
    IN  IF ~r.ok THEN Fail(Saw(c, r), r.p, ReadError)
        ELSE Go(d, r.p, IF 0 < d.cnt THEN "nodeLen" ELSE "typeCount")

NodeLenStep(c, p) ==
    LET r == read(p, 1)
    IN  IF ~r.ok THEN Fail(Saw(c, r), r.p, ReadError)
        ELSE Go([Saw(c, r) EXCEPT !.l = r.data[1]], r.p, "nodeName")

NodeNameStep(c, p) ==
    LET r == read(p, c.l)
        q == SetNode(r.p, [r.p.n[1] EXCEPT !.Nodes = Append(@, r.data)])
        d == [Saw(c, r) EXCEPT !.idx = c.idx + 1]
    IN  IF ~r.ok THEN Fail(Saw(c, r), r.p, ReadError)
        ELSE Go(d, q, IF d.idx < d.cnt THEN "nodeLen" ELSE "typeCount")

TypeCountStep(c, p0) ==
    LET p == SetCtx(p0, "reading amount of types", <<>>)
        r == read(p, 1)
        d == [Saw(c, r) EXCEPT !.cnt = r.data[1], !.idx = 0]
    IN  IF ~r.ok THEN Fail(Saw(c, r), r.p, ReadError)
        ELSE Go(d, r.p, IF 0 < d.cnt THEN "typeLen" ELSE "instCount")

TypeLenStep(c, p) ==
    LET r == read(p, 1)
    IN  IF ~r.ok THEN Fail(Saw(c, r), r.p, ReadError)
        ELSE Go([Saw(c, r) EXCEPT !.l = r.data[1]], r.p, "typeName")

TypeNameStep(c, p) ==
    LET r == read(p, c.l)
        q == SetNode(r.p, [r.p.n[1] EXCEPT !.Types = Append(@, r.data)])
        d == [Saw(c, r) EXCEPT !.idx = c.idx + 1]
    IN  IF ~r.ok THEN Fail(Saw(c, r), r.p, ReadError)
        ELSE Go(d, q, IF d.idx < d.cnt THEN "typeLen" ELSE "instCount")

----------------------------------------------------------------------------
(* parseInstances and parseSocket.                                         *)

\* p.n.Instances = append(p.n.Instances, i), then the next instance or the
\* end of parseInstances, where parse returns (p.n, nil)
FinishInstance(c, p) ==
    LET q == SetNode(p, [p.n[1] EXCEPT !.Instances = Append(@, c.inst)])
        d == [c EXCEPT !.ii = c.ii + 1]
    IN  IF d.ii < d.instCount THEN Go(d, q, "instKey")
        ELSE Return(d, q, q.n, <<>>)

\* i.Sockets = append(i.Sockets, s), then the next socket or the end of the
\* instance; lastSock notes the socket with the offsets it was decoded from
FinishSocket(c, p) ==
    LET d == [c EXCEPT !.inst.Sockets = Append(@, c.s),
                       !.si = c.si + 1,
                       !.lastSock = <<[start |-> c.sockStart, end |-> p.i,
                                       flags |-> c.socketFlags, s |-> c.s]>>]
    IN  IF d.si < d.sockCount THEN Go(d, p, "sockFlags")
        ELSE FinishInstance(d, p)

InstCountStep(c, p0) ==
    LET p == SetCtx(p0, "reading amount of instances", <<>>)
        r == read(p, 1)
        d == [Saw(c, r) EXCEPT !.instCount = r.data[1], !.ii = 0]
    IN  IF ~r.ok THEN Fail(Saw(c, r), r.p, ReadError)
        ELSE IF 0 < d.instCount THEN Go(d, r.p, "instKey")
        ELSE Return(d, r.p, r.p.n, <<>>)

InstKeyStep(c, p0) ==
    LET p == SetCtx(p0, "parsing instance [%d]", <<c.ii>>)
        r == read(p, 1)
        d == [Saw(c, r) EXCEPT !.inst = ZeroInstance]
    IN  IF ~r.ok THEN Fail(d, r.p, ReadError)
        ELSE Go([d EXCEPT !.inst.Key = r.data[1]], r.p, "instType")

InstTypeStep(c, p) ==
    LET r == read(p, 1)
    IN  IF ~r.ok THEN Fail(Saw(c, r), r.p, ReadError)
        ELSE Go([Saw(c, r) EXCEPT !.inst.Type = r.data[1]], r.p, "sizeInfo")

SizeInfoStep(c, p) ==
    LET r == read(p, 4)
        u == UnpackInstance(r.data)
    IN  IF ~r.ok THEN Fail(Saw(c, r), r.p, ReadError)
        ELSE Go([Saw(c, r) EXCEPT !.inst.Position = u.Position,
                                  !.instNameLen = u.NameLen,
                                  !.instSockCount = u.SockCount],
                r.p, "instName")

InstNameStep(c, p) ==
    LET r == read(p, c.instNameLen)
        d == [Saw(c, r) EXCEPT !.inst.Name = r.data,
                               !.sockCount = c.instSockCount, !.si = 0]
    IN  IF ~r.ok THEN Fail(Saw(c, r), r.p, ReadError)
        ELSE IF 0 < d.sockCount THEN Go(d, r.p, "sockFlags")
        ELSE FinishInstance(d, r.p)

\* s.Type = SocketType(socketFlags >> 3 & 0b111)
SocketKind(socketFlags) == BitAnd(Shr(socketFlags, 3), 7)

SockFlagsStep(c, p0) ==
    LET p == SetCtx(p0, "parsing socket [%d] in instance [%d]", <<c.si, c.ii>>)
        r == read(p, 1)
        f == r.data[1]
        d == [Saw(c, r) EXCEPT !.s = ZeroSocket, !.sockStart = r.at]
    IN  IF ~r.ok THEN Fail(d, r.p, ReadError)
        ELSE Go([d EXCEPT !.socketFlags = f,
                          !.s.Type = SocketKind(f),
                          !.s.Connected = (BitAnd(f, 2) # 0),
                          !.s.Repetitive = (BitAnd(f, 4) # 0),
                          !.switchValue = (BitAnd(f, 1) # 0)],
                r.p, "sockValueType")

SockValueTypeStep(c, p) ==
    LET r == read(p, 1)
    IN  IF ~r.ok THEN Fail(Saw(c, r), r.p, ReadError)
        ELSE Go([Saw(c, r) EXCEPT !.s.ValueType = r.data[1]], r.p, "sockPortSlot")

\* the tail without the test for switch sockets
SocketTailNoSwitch(s) ==
    IF s.Type # OutgoingNamed
    THEN IF s.Connected THEN "connNode" ELSE "valueLen"
    ELSE "none"

\* the tail without the test for outgoing sockets
SocketTailAlways(s) ==
    IF s.Connected THEN "connNode"
    ELSE IF s.Type # IncomingSwitch THEN "valueLen"
    ELSE "switch"

\* what parseSocket does once flags, value type and port slot are read
SocketTail(s) ==
    IF s.Type # OutgoingNamed
    THEN IF s.Connected THEN "connNode"
         ELSE IF s.Type # IncomingSwitch THEN "valueLen"
         ELSE "switch"
    ELSE "none"

SockPortSlotStep(c, p) ==
    LET r == read(p, 1)
        d == [Saw(c, r) EXCEPT !.s.PortSlot = r.data[1]]
        t == SocketTail(d.s)
    IN  IF ~r.ok THEN Fail(Saw(c, r), r.p, ReadError)
        ELSE IF t = "none" THEN FinishSocket(d, r.p)
        ELSE IF t = "switch"
             THEN FinishSocket([d EXCEPT !.s.Value = FormatBool(d.switchValue)], r.p)
        ELSE Go(d, r.p, t)

ConnNodeStep(c, p) ==
    LET r == read(p, 1)
    IN  IF ~r.ok THEN Fail(Saw(c, r), r.p, ReadError)
        ELSE Go([Saw(c, r) EXCEPT !.s.ConnectedNode = r.data[1]], r.p, "connSocket")

ConnSocketStep(c, p) ==
    LET r == read(p, 1)
    IN  IF ~r.ok THEN Fail(Saw(c, r), r.p, ReadError)
        ELSE FinishSocket([Saw(c, r) EXCEPT !.s.ConnectedSocket = r.data[1]], r.p)

ValueLenStep(c, p) ==
    LET r == read(p, 4)
    IN  IF ~r.ok THEN Fail(Saw(c, r), r.p, ReadError)
        ELSE Go([Saw(c, r) EXCEPT !.valueLen = BigEndian32(r.data)], r.p, "value")

ValueStep(c, p) ==
    LET r == read(p, c.valueLen)
    IN  IF ~r.ok THEN Fail(Saw(c, r), r.p, ReadError)
        ELSE FinishSocket([Saw(c, r) EXCEPT !.s.Value = r.data], r.p)

----------------------------------------------------------------------------
(* ParseFromReader: io.ReadAll, ParseFromSlice, and the conversion of the  *)
(* ParseError pointer it returns to an error interface value.              *)

\* An error interface value: its dynamic type ("nil" when the interface holds
\* nothing) and, for a pointer to a ParseError, the pointer it holds.
NilError == [typ |-> "nil", ptr |-> <<>>]

\* err == nil is true only of the interface that holds no type
IsNilError(e) == e.typ = "nil"

\* assigning a ParseError pointer to an error wraps the pointer, nil or not
ToError(perr) == [typ |-> "*ParseError", ptr |-> perr]

\* the error io.ReadAll returns when the stream fails
StreamError == [typ |-> "io", ptr |-> <<>>]

ReadAllStep(c, p) ==
    IF c.stream.fails
    THEN [c |-> [c EXCEPT !.pc = "rdreturned", !.rdRet = <<>>, !.rdErr = StreamError],
          p |-> p]
    ELSE Go([c EXCEPT !.buf = c.stream.data], p, "start")

\* return ParseFromSlice(buf)
ReaderReturnStep(c, p) ==
    [c |-> [c EXCEPT !.pc = "rdreturned", !.rdRet = c.ret, !.rdErr = ToError(c.err)],
     p |-> p]

----------------------------------------------------------------------------
(* One step of a call, by its position; a call run alone to completion.    *)

StepFn(c, p) ==
    CASE c.pc = "start"         -> StartStep(c, p)
      [] c.pc = "magic"         -> MagicStep(c, p)
      [] c.pc = "version"       -> VersionStep(c, p)
      [] c.pc = "rootpos"       -> RootPosStep(c, p)
      [] c.pc = "connCount"     -> ConnCountStep(c, p)
      [] c.pc = "conn"          -> ConnStep(c, p)
      [] c.pc = "nodeCount"     -> NodeCountStep(c, p)
      [] c.pc = "nodeLen"       -> NodeLenStep(c, p)
      [] c.pc = "nodeName"      -> NodeNameStep(c, p)
      [] c.pc = "typeCount"     -> TypeCountStep(c, p)
      [] c.pc = "typeLen"       -> TypeLenStep(c, p)
      [] c.pc = "typeName"      -> TypeNameStep(c, p)
      [] c.pc = "instCount"     -> InstCountStep(c, p)
      [] c.pc = "instKey"       -> InstKeyStep(c, p)
      [] c.pc = "instType"      -> InstTypeStep(c, p)
      [] c.pc = "sizeInfo"      -> SizeInfoStep(c, p)
      [] c.pc = "instName"      -> InstNameStep(c, p)
      [] c.pc = "sockFlags"     -> SockFlagsStep(c, p)
      [] c.pc = "sockValueType" -> SockValueTypeStep(c, p)
      [] c.pc = "sockPortSlot"  -> SockPortSlotStep(c, p)
      [] c.pc = "connNode"      -> ConnNodeStep(c, p)
      [] c.pc = "connSocket"    -> ConnSocketStep(c, p)
      [] c.pc = "valueLen"      -> ValueLenStep(c, p)
      [] c.pc = "value"         -> ValueStep(c, p)

RECURSIVE Run(_, _)
Run(c, p) ==
    IF c.pc = "returned" THEN c
    ELSE LET r == StepFn(c, p) IN Run(r.c, r.p)

\* the locals of a call of ParseFromSlice(buf) that has not begun
NewCall(buf) ==
    [mode |-> "slice", stream |-> [data |-> <<>>, fails |-> FALSE],
     buf |-> buf, pc |-> "start",
     cnt |-> 0, idx |-> 0, l |-> 0,
     instCount |-> 0, ii |-> 0, inst |-> ZeroInstance,
     instNameLen |-> 0, instSockCount |-> 0, sockCount |-> 0, si |-> 0,
     s |-> ZeroSocket, socketFlags |-> 0, switchValue |-> FALSE, valueLen |-> 0,
     sockStart |-> 0, last |-> <<>>, lastSock |-> <<>>,
     ret |-> <<>>, err |-> <<>>, rdRet |-> <<>>, rdErr |-> NilError]

\* the locals of a call of ParseFromReader(stream) that has not begun
NewReaderCall(stream) ==
    [NewCall(<<>>) EXCEPT !.mode = "reader", !.stream = stream, !.pc = "readall"]

\* ParseFromSlice(buf), run alone to completion
ParseFromSlice(buf) == Run(NewCall(buf), ZeroParser)

----------------------------------------------------------------------------
(* The actions.  Each call works on the parser struct it declares itself.  *)

\* one parser struct shared by every call
SharedParser(k) == 1

\* p := parser{buf: buf} is a local of the call: call k's parser is heap[k]
parserOf(k) == k

Do(k, r) ==
    /\ call' = [call EXCEPT ![k] = r.c]
    /\ heap' = [heap EXCEPT ![parserOf(k)] = r.p]
    /\ UNCHANGED <<win, unp>>

\* the calls a run may hold
CallIds == {1, 2}

At(k, pc) == k \in DOMAIN call /\ call[k].pc = pc

Mine(k) == heap[parserOf(k)]

Start(k) == At(k, "start") /\ Do(k, StartStep(call[k], Mine(k)))
Magic(k) == At(k, "magic") /\ Do(k, MagicStep(call[k], Mine(k)))
Version(k) == At(k, "version") /\ Do(k, VersionStep(call[k], Mine(k)))
RootPos(k) == At(k, "rootpos") /\ Do(k, RootPosStep(call[k], Mine(k)))
ConnCount(k) == At(k, "connCount") /\ Do(k, ConnCountStep(call[k], Mine(k)))
Conn(k) == At(k, "conn") /\ Do(k, ConnStep(call[k], Mine(k)))
NodeCount(k) == At(k, "nodeCount") /\ Do(k, NodeCountStep(call[k], Mine(k)))
NodeLen(k) == At(k, "nodeLen") /\ Do(k, NodeLenStep(call[k], Mine(k)))
NodeName(k) == At(k, "nodeName") /\ Do(k, NodeNameStep(call[k], Mine(k)))
TypeCount(k) == At(k, "typeCount") /\ Do(k, TypeCountStep(call[k], Mine(k)))
TypeLen(k) == At(k, "typeLen") /\ Do(k, TypeLenStep(call[k], Mine(k)))
TypeName(k) == At(k, "typeName") /\ Do(k, TypeNameStep(call[k], Mine(k)))
InstCount(k) == At(k, "instCount") /\ Do(k, InstCountStep(call[k], Mine(k)))
InstKey(k) == At(k, "instKey") /\ Do(k, InstKeyStep(call[k], Mine(k)))
InstType(k) == At(k, "instType") /\ Do(k, InstTypeStep(call[k], Mine(k)))
SizeInfo(k) == At(k, "sizeInfo") /\ Do(k, SizeInfoStep(call[k], Mine(k)))
InstName(k) == At(k, "instName") /\ Do(k, InstNameStep(call[k], Mine(k)))
SockFlags(k) == At(k, "sockFlags") /\ Do(k, SockFlagsStep(call[k], Mine(k)))
SockValueType(k) == At(k, "sockValueType") /\ Do(k, SockValueTypeStep(call[k], Mine(k)))
SockPortSlot(k) == At(k, "sockPortSlot") /\ Do(k, SockPortSlotStep(call[k], Mine(k)))
ConnNode(k) == At(k, "connNode") /\ Do(k, ConnNodeStep(call[k], Mine(k)))
ConnSocket(k) == At(k, "connSocket") /\ Do(k, ConnSocketStep(call[k], Mine(k)))
ValueLen(k) == At(k, "valueLen") /\ Do(k, ValueLenStep(call[k], Mine(k)))
Value(k) == At(k, "value") /\ Do(k, ValueStep(call[k], Mine(k)))

ReadAll(k) == At(k, "readall") /\ Do(k, ReadAllStep(call[k], Mine(k)))

ReaderReturn(k) ==
    /\ At(k, "returned")
    /\ call[k].mode = "reader"
    /\ Do(k, ReaderReturnStep(call[k], Mine(k)))

----------------------------------------------------------------------------
(* The inputs: byte buffers laid out as the format describes, with every   *)
(* count up to MaxCount, every flags byte, bad magics and versions, and    *)
(* every truncation of the fullest document.                               *)

MaxCount == 2

\* f[1] \o ... \o f[n]
RECURSIVE Cat(_, _)
Cat(f, n) == IF n = 0 THEN <<>> ELSE Cat(f, n - 1) \o f[n]

RootWindow == <<18, 52, 86, 120, 154>>

ConnBytes(j) == <<j, 10 + j>>

\* a length-prefixed name of j % 3 bytes
NameBytes(j, base) == <<j % 3>> \o [t \in 1 .. (j % 3) |-> base + t]

\* incoming-named connected, incoming-text, incoming-switch set,
\* outgoing-named with the connected bit
SampleFlags == <<10, 40, 33, 2>>

\* the bytes that follow flags, value type and port slot of a well-formed socket
TailBytes(f, j) ==
    IF SocketKind(f) = OutgoingNamed THEN <<>>
    ELSE IF BitAnd(f, 2) # 0 THEN <<3, j>>
    ELSE IF SocketKind(f) # IncomingSwitch THEN <<0, 0, 0, j>> \o [t \in 1 .. j |-> 64 + t]
    ELSE <<>>

SocketBytes(i, j) ==
    LET f == SampleFlags[(((i - 1) * 2 + j - 1) % Len(SampleFlags)) + 1]
    IN  <<f, 7, 9>> \o TailBytes(f, j)

\* the 4-byte window that packs x, y, name length and socket count
Pack(x, y, nl, sc) ==
    <<x \div 4, ((x % 4) * 64) + (y \div 16), ((y % 16) * 16) + (nl \div 4), ((nl % 4) * 64) + sc>>

InstanceBytes(i, ns) ==
    <<i, 255 - i>> \o Pack(500 + i, 1023 - i, i % 3, ns)
        \o [t \in 1 .. (i % 3) |-> 96 + t]
        \o Cat([j \in 1 .. ns |-> SocketBytes(i, j)], ns)

Body(nc, nn, nt, ni, ns) ==
    RootWindow
        \o <<nc>> \o Cat([j \in 1 .. nc |-> ConnBytes(j)], nc)
        \o <<nn>> \o Cat([j \in 1 .. nn |-> NameBytes(j, 64)], nn)
        \o <<nt>> \o Cat([j \in 1 .. nt |-> NameBytes(j + 1, 96)], nt)
        \o <<ni>> \o Cat([i \in 1 .. ni |-> InstanceBytes(i, ns)], ni)

Doc(nc, nn, nt, ni, ns) == MAGIC_NUMBER \o <<LATEST_VERSION>> \o Body(nc, nn, nt, ni, ns)

CountDocs ==
    {Doc(nc, nn, nt, ni, ns) : nc \in 0 .. MaxCount, nn \in 0 .. MaxCount,
                               nt \in 0 .. MaxCount, ni \in 0 .. MaxCount,
                               ns \in 0 .. MaxCount}

FullDoc == Doc(MaxCount, MaxCount, MaxCount, MaxCount, MaxCount)

MinimalDoc == Doc(0, 0, 0, 0, 0)

Truncations == {SubSeq(FullDoc, 1, t) : t \in 0 .. Len(FullDoc)}

Trailing == {FullDoc \o <<238>>, MinimalDoc \o <<0, 1>>}

BadMagics ==
    {[MAGIC_NUMBER EXCEPT ![j] = (@ + 1) % 256] \o tl :
        j \in 1 .. Len(MAGIC_NUMBER),
        tl \in {<<>>, <<LATEST_VERSION>> \o Body(0, 0, 0, 0, 0)}}

Versions ==
    {MAGIC_NUMBER \o <<v>> \o Body(1, 0, 0, 0, 0) : v \in {0, 1, 2, 255}}

SockTails == {<<0, 0, 0, 2, 65, 66>>, <<3, 1>>, <<127, 255, 255, 255, 1>>}

\* one instance with one socket of flags f, followed by tl
SocketDoc(f, tl) ==
    MAGIC_NUMBER \o <<LATEST_VERSION>> \o RootWindow \o <<0, 0, 0, 1>>
        \o <<1, 254>> \o Pack(0, 1023, 0, 1) \o <<f, 7, 9>> \o tl

SocketDocs == {SocketDoc(f, tl) : f \in Byte, tl \in SockTails}

Buffers ==
    CountDocs \cup Truncations \cup Trailing \cup BadMagics \cup Versions \cup SocketDocs

----------------------------------------------------------------------------
(* Spec: one call of ParseFromSlice on any of the buffers.                 *)

Init ==
    /\ \E b \in Buffers : call = [k \in {1} |-> NewCall(b)]
    /\ heap = [a \in {1} |-> ZeroParser]
    /\ win = <<>>
    /\ unp = <<>>

Step(k) ==
    \/ Start(k) \/ Magic(k) \/ Version(k)
    \/ RootPos(k) \/ ConnCount(k) \/ Conn(k)
    \/ NodeCount(k) \/ NodeLen(k) \/ NodeName(k)
    \/ TypeCount(k) \/ TypeLen(k) \/ TypeName(k)
    \/ InstCount(k) \/ InstKey(k) \/ InstType(k) \/ SizeInfo(k) \/ InstName(k)
    \/ SockFlags(k) \/ SockValueType(k) \/ SockPortSlot(k)
    \/ ConnNode(k) \/ ConnSocket(k) \/ ValueLen(k) \/ Value(k)

Next == \E k \in CallIds : Step(k)

Spec == Init /\ [][Next]_vars

----------------------------------------------------------------------------
(* Properties of one call of ParseFromSlice.                               *)

Returned(k) == k \in DOMAIN call /\ call[k].pc = "returned"

Succeeded(k) == Returned(k) /\ call[k].err = <<>>

Failed(k) == Returned(k) /\ call[k].err # <<>>

\* every socket of the document under construction, finished or not
SocketsOf(k) ==
    LET insts == IF heap[k].n = <<>> THEN <<>> ELSE heap[k].n[1].Instances
    IN  {insts[i].Sockets[j] : <<i, j>> \in
            {x \in (DOMAIN insts) \X (0 .. 63) : x[2] \in DOMAIN insts[x[1]].Sockets}}
        \cup {call[k].inst.Sockets[j] : j \in DOMAIN call[k].inst.Sockets}

\* C1: the cursor offset starts at 0, stays within 0 .. len(buf) in every
\* state (the state an error is returned in included) and never decreases.
C1_CursorMonotoneInBounds ==
    /\ [](\A k \in DOMAIN call :
            /\ 0 <= heap[k].i
            /\ heap[k].i <= Len(call[k].buf)
            /\ call[k].pc \in {"start", "magic"} => heap[k].i = 0)
    /\ [][\A k \in DOMAIN call : heap'[k].i >= heap[k].i]_vars

\* a decode that failed with the cursor at the very end of a longer buffer
C1_Witness ==
    \E k \in DOMAIN call :
        Failed(k) /\ heap[k].i = Len(call[k].buf) /\ heap[k].i > Len(MAGIC_NUMBER)

\* C2: a read of n bytes at offset i with fewer than n bytes left fails with
\* a read error whose Index is i, leaves the offset at i and yields no
\* Document; with at least n bytes left it succeeds and the offset is i + n.
C2_ReadAllOrError ==
    \A k \in DOMAIN call :
        call[k].last # <<>> =>
            LET a == call[k].last[1]
            IN  IF Len(call[k].buf) - a.at < a.n
                THEN /\ Failed(k)
                     /\ call[k].ret = <<>>
                     /\ call[k].err[1].Index = a.at
                     /\ call[k].err[1].Message = ReadError
                     /\ heap[k].i = a.at
                ELSE /\ heap[k].i = a.at + a.n
                     /\ Failed(k) => call[k].err[1].Message.fmt # ReadError.fmt

\* a read of a field of which some, but not all, bytes are present
C2_Witness ==
    \E k \in DOMAIN call :
        /\ call[k].last # <<>>
        /\ Failed(k)
        /\ Len(call[k].buf) - call[k].last[1].at > 0
        /\ Len(call[k].buf) - call[k].last[1].at < call[k].last[1].n

\* the phase a position belongs to
PhaseOf(pc) ==
    CASE pc = "start" -> 0
      [] pc \in {"magic", "version"} -> 1
      [] pc \in {"rootpos", "connCount", "conn"} -> 2
      [] pc \in {"nodeCount", "nodeLen", "nodeName"} -> 3
      [] pc \in {"typeCount", "typeLen", "typeName"} -> 4
      [] pc = "returned" -> 6
      [] OTHER -> 5

\* C3: a call returns a Document and no error, or an error and no Document;
\* the phases run in order, none is skipped on the way to a Document, and a
\* call that has failed reads nothing more and leaves the offset alone.
C3_AllOrNothingFailFast ==
    /\ [](\A k \in DOMAIN call :
            IF Returned(k)
            THEN /\ (call[k].ret = <<>>) # (call[k].err = <<>>)
                 /\ call[k].ret # <<>> => call[k].ret = heap[k].n
            ELSE call[k].ret = <<>> /\ call[k].err = <<>>)
    /\ [][\A k \in DOMAIN call :
            /\ PhaseOf(call'[k].pc) >= PhaseOf(call[k].pc)
            /\ call'[k].pc # "returned" => PhaseOf(call'[k].pc) <= PhaseOf(call[k].pc) + 1
            /\ (call'[k].pc = "returned" /\ call'[k].err = <<>>) => PhaseOf(call[k].pc) >= 5
            /\ Failed(k) => call'[k] = call[k] /\ heap'[k] = heap[k]]_vars

\* a decode that failed in the instances phase, with tables already decoded
C3_Witness ==
    \E k \in DOMAIN call :
        /\ Failed(k)
        /\ call[k].ret = <<>>
        /\ heap[k].n[1].Nodes # <<>>
        /\ heap[k].n[1].Types # <<>>
        /\ heap[k].n[1].Instances # <<>>

BadMagic(k) ==
    /\ Returned(k)
    /\ Len(call[k].buf) >= 11
    /\ SubSeq(call[k].buf, 1, 11) # MAGIC_NUMBER

InvalidMagicError(k, index) ==
    <<[Context |-> Text("parsing magic", <<>>),
       Message |-> Text("invalid magic %v", SubSeq(call[k].buf, 1, 11)),
       Index |-> index]>>

\* C5 as stated: a buffer of at least 11 bytes that does not start with the
\* magic fails with "invalid magic", the 11 bytes read, at Index 0.
C5_InvalidMagicAtZero ==
    \A k \in DOMAIN call :
        BadMagic(k) => call[k].ret = <<>> /\ call[k].err = InvalidMagicError(k, 0)

\* C5 as amended: the same, but Index is 11, the offset after the 11 bytes.
C5_InvalidMagicAfterRead ==
    \A k \in DOMAIN call :
        BadMagic(k) => call[k].ret = <<>> /\ call[k].err = InvalidMagicError(k, 11)

\* a full document whose magic is wrong in its last byte only
C5_Witness ==
    \E k \in DOMAIN call :
        /\ BadMagic(k)
        /\ Len(call[k].buf) > 11
        /\ SubSeq(call[k].buf, 1, 10) = SubSeq(MAGIC_NUMBER, 1, 10)
        /\ call[k].err # <<>>

\* the flags byte's fields, by arithmetic
KindBits(f) == (f \div 8) % 8

ConnectedBit(f) == (f \div 2) % 2 = 1

\* C7: the tail of a socket that is not outgoing-named: 2 bytes when the
\* connected bit is set (instance index, then socket index; no Value);
\* else 4 + L bytes and Value is the L bytes, unless the kind is
\* incoming-switch, which reads nothing and has Value "true" or "false" by
\* bit 0.  No socket is both connected and has a non-empty Value.
C7_SocketTail ==
    \A k \in DOMAIN call :
        /\ call[k].lastSock # <<>> =>
            LET ls == call[k].lastSock[1]
                b == call[k].buf
                o == ls.start + 3
                L == b[o + 1] * 16777216 + b[o + 2] * 65536 + b[o + 3] * 256 + b[o + 4]
            IN  KindBits(ls.flags) # 0 =>
                IF ConnectedBit(ls.flags)
                THEN /\ ls.end = o + 2
                     /\ ls.s.ConnectedNode = b[o + 1]
                     /\ ls.s.ConnectedSocket = b[o + 2]
                     /\ ls.s.Value = <<>>
                ELSE IF KindBits(ls.flags) # 4
                THEN /\ ls.end = o + 4 + L
                     /\ ls.s.Value = SubSeq(b, o + 5, o + 4 + L)
                ELSE /\ ls.end = o
                     /\ ls.s.Value = IF ls.flags % 2 = 1
                                     THEN <<116, 114, 117, 101>>
                                     ELSE <<102, 97, 108, 115, 101>>
        /\ \A s \in SocketsOf(k) : ~(s.Connected /\ s.Value # <<>>)

\* a Document with a connected socket, a socket with a value read from the
\* buffer and a switch socket
C7_Witness ==
    \E k \in DOMAIN call :
        /\ Succeeded(k)
        /\ call[k].lastSock # <<>>
        /\ \E s \in SocketsOf(k) : s.Type # 0 /\ s.Connected /\ s.ConnectedNode # s.ConnectedSocket
        /\ \E s \in SocketsOf(k) : s.Type = 5 /\ ~s.Connected /\ Len(s.Value) = 2
        /\ \E s \in SocketsOf(k) : s.Type = 4 /\ ~s.Connected /\ s.Value = <<116, 114, 117, 101>>

OutgoingSocketDecoded(k) ==
    /\ call[k].lastSock # <<>>
    /\ KindBits(call[k].lastSock[1].flags) = 0

\* C8 as stated: an outgoing-named socket is not marked Connected, has no
\* connection indices and no Value, and takes 3 bytes, whatever its other bits.
C8_OutgoingNotConnected ==
    \A k \in DOMAIN call :
        OutgoingSocketDecoded(k) =>
            LET ls == call[k].lastSock[1]
            IN  /\ ~ls.s.Connected
                /\ ls.s.ConnectedNode = 0 /\ ls.s.ConnectedSocket = 0
                /\ ls.s.Value = <<>>
                /\ ls.end = ls.start + 3

\* C8 as amended: an outgoing-named socket has no connection indices and no
\* Value and takes 3 bytes, whatever its other bits; its Connected field is
\* bit 1 of the flags byte.
C8_OutgoingNoReference ==
    \A k \in DOMAIN call :
        OutgoingSocketDecoded(k) =>
            LET ls == call[k].lastSock[1]
            IN  /\ ls.s.Connected = ConnectedBit(ls.flags)
                /\ ls.s.ConnectedNode = 0 /\ ls.s.ConnectedSocket = 0
                /\ ls.s.Value = <<>>
                /\ ls.end = ls.start + 3

\* an outgoing-named socket with every other bit of the flags byte set
C8_Witness ==
    \E k \in DOMAIN call :
        /\ OutgoingSocketDecoded(k)
        /\ call[k].lastSock[1].flags = 199
        /\ Succeeded(k)

\* C10: every socket of a decoded Document has one of the six defined kinds.
C10_KindDefined ==
    \A k \in DOMAIN call :
        Succeeded(k) => \A s \in SocketsOf(k) : s.Type \in 0 .. 5

----------------------------------------------------------------------------
(* SpecConc: two calls of ParseFromSlice on distinct buffers, their steps  *)
(* interleaved in every order.                                             *)

\* a document with one connection, one node name, one type name and one
\* instance with a connected socket and a text socket
ConcDoc == Doc(1, 1, 1, 1, 2)

ConcBuffers ==
    {ConcDoc,
     SubSeq(ConcDoc, 1, Len(ConcDoc) - 1),
     MinimalDoc,
     [MAGIC_NUMBER EXCEPT ![1] = 75] \o <<LATEST_VERSION>>,
     MAGIC_NUMBER \o <<2>> \o Body(0, 0, 0, 0, 0),
     SocketDoc(48, <<0, 0, 0, 2, 65, 66>>)}

InitConc ==
    /\ \E b1 \in ConcBuffers, b2 \in ConcBuffers :
          /\ b1 # b2
          /\ call = [k \in CallIds |-> NewCall(IF k = 1 THEN b1 ELSE b2)]
    /\ heap = [a \in CallIds |-> ZeroParser]
    /\ win = <<>>
    /\ unp = <<>>

SpecConc == InitConc /\ [][Next]_vars

\* the states (locals, parser) a call passes through when run alone
RECURSIVE Trace(_, _)
Trace(c, p) ==
    IF c.pc = "returned" THEN {<<c, p>>}
    ELSE LET r == StepFn(c, p) IN {<<c, p>>} \cup Trace(r.c, r.p)

\* C9: interleaved with another call, a call goes through the states it goes
\* through alone, and returns the Document or error it returns alone.
C9_Independent ==
    \A k \in DOMAIN call :
        /\ <<call[k], heap[k]>> \in Trace(NewCall(call[k].buf), ZeroParser)
        /\ Returned(k) =>
              /\ call[k].ret = ParseFromSlice(call[k].buf).ret
              /\ call[k].err = ParseFromSlice(call[k].buf).err

\* one call returned a Document, the other an error at another offset
C9_Witness ==
    /\ DOMAIN call = CallIds
    /\ Succeeded(1)
    /\ call[1].ret[1].Instances # <<>>
    /\ Failed(2)
    /\ call[2].err[1].Index # heap[1].i
    /\ call[2].err[1].Context # heap[1].ctx

----------------------------------------------------------------------------
(* SpecReader: one call of ParseFromReader on a stream that delivers the   *)
(* bytes of a buffer, or fails.                                            *)

InitReader ==
    /\ \E b \in Buffers, f \in BOOLEAN :
          call = [k \in {1} |-> NewReaderCall([data |-> b, fails |-> f])]
    /\ heap = [a \in {1} |-> ZeroParser]
    /\ win = <<>>
    /\ unp = <<>>

NextReader == \E k \in CallIds : ReadAll(k) \/ Step(k) \/ ReaderReturn(k)

SpecReader == InitReader /\ [][NextReader]_vars

\* C4: ParseFromReader on a stream that delivers b returns what
\* ParseFromSlice(b) returns: its Document and an error equal to nil, or no
\* Document and its error; a stream failure returns another kind of error
\* and no Document.
C4_ReaderAgreesWithSlice ==
    \A k \in DOMAIN call :
        call[k].pc = "rdreturned" =>
            IF call[k].stream.fails
            THEN /\ call[k].rdRet = <<>>
                 /\ call[k].rdErr.typ \notin {"nil", "*ParseError"}
            ELSE LET a == ParseFromSlice(call[k].stream.data)
                 IN  IF a.err = <<>>
                     THEN call[k].rdRet = a.ret /\ call[k].rdErr.typ = "nil"
                     ELSE /\ call[k].rdRet = <<>>
                          /\ call[k].rdErr = [typ |-> "*ParseError", ptr |-> a.err]

----------------------------------------------------------------------------
(* SpecBits: the unpacking applied to windows of bytes.                    *)

ByteSamples == {0, 255, 15, 240, 63, 192, 3, 170}

\* the window of n bytes whose only set bit is bit j, counted from the left
OneBit(n, j) == [t \in 1 .. n |-> IF t = (j \div 8) + 1 THEN 2 ^ (7 - (j % 8)) ELSE 0]

Windows(n) ==
    [1 .. n -> ByteSamples] \cup {OneBit(n, j) : j \in 0 .. (8 * n - 1)}

InitBits ==
    /\ win \in Windows(5) \cup Windows(4)
    /\ unp = <<>>
    /\ call = <<>>
    /\ heap = <<>>

UnpackRootWindow ==
    /\ Len(win) = 5
    /\ unp = <<>>
    /\ unp' = <<UnpackRoots(win)>>
    /\ UNCHANGED <<call, heap, win>>

UnpackInstanceWindow ==
    /\ Len(win) = 4
    /\ unp = <<>>
    /\ unp' = <<UnpackInstance(win)>>
    /\ UNCHANGED <<call, heap, win>>

NextBits == UnpackRootWindow \/ UnpackInstanceWindow

SpecBits == InitBits /\ [][NextBits]_vars

\* bit j of a window, counted from the most significant bit of its first byte
Bit(w, j) == (w[(j \div 8) + 1] \div (2 ^ (7 - (j % 8)))) % 2

\* the field of the given width that starts at bit start, most significant first
RECURSIVE Field(_, _, _)
Field(w, start, width) ==
    IF width = 0 THEN 0
    ELSE 2 * Field(w, start, width - 1) + Bit(w, start + width - 1)

\* C6: the four root coordinates are the four 10-bit fields of the 5-byte
\* window minus 500; an instance's X and Y are the first two 10-bit fields
\* of the 4-byte window minus 500, its name length the next 6 bits, its
\* socket count the last 6; coordinates lie in -500 .. 523, lengths and
\* counts in 0 .. 63.
C6_BitFields ==
    unp # <<>> =>
        IF Len(win) = 5
        THEN /\ unp[1].InputRootPosition.X = Field(win, 0, 10) - 500
             /\ unp[1].InputRootPosition.Y = Field(win, 10, 10) - 500
             /\ unp[1].OutputRootPosition.X = Field(win, 20, 10) - 500
             /\ unp[1].OutputRootPosition.Y = Field(win, 30, 10) - 500
             /\ \A q \in {unp[1].InputRootPosition, unp[1].OutputRootPosition} :
                    q.X \in -500 .. 523 /\ q.Y \in -500 .. 523
        ELSE /\ unp[1].Position.X = Field(win, 0, 10) - 500
             /\ unp[1].Position.Y = Field(win, 10, 10) - 500
             /\ unp[1].NameLen = Field(win, 20, 6)
             /\ unp[1].NameLen = (win[3] % 16) * 4 + (win[4] \div 64)
             /\ unp[1].SockCount = Field(win, 26, 6)
             /\ unp[1].SockCount = win[4] % 64
             /\ unp[1].Position.X \in -500 .. 523
             /\ unp[1].Position.Y \in -500 .. 523
             /\ unp[1].NameLen \in 0 .. 63
             /\ unp[1].SockCount \in 0 .. 63

\* an instance window with the largest X and name length, the least Y and count
C6_Witness ==
    /\ unp # <<>>
    /\ Len(win) = 4
    /\ unp[1].Position.X = 523
    /\ unp[1].Position.Y = -500
    /\ unp[1].NameLen = 63
    /\ unp[1].SockCount = 0

====
